---- MODULE Spec2Model ----
(***************************************************************************)
(* The darkview frame pipeline: capture workers (camera_thread_queue.py,   *)
(* shared_state.py), the fusion worker (fusion_worker.py), the Flask       *)
(* feeder (main.py) and the capacity-1 handoff queues between them.        *)
(*                                                                         *)
(* Every thread is a program counter; one action is one step between two   *)
(* accesses to shared state (a queue.Queue call, a flag read or write).    *)
(* queue.Queue methods are atomic (they hold the queue's mutex).           *)
(***************************************************************************)
EXTENDS Integers, Sequences, FiniteSets, TLC

\* ------------------------------------------------------------- bounds ---
\* A worker starts a new cycle only while its frame counter is below this.
MaxFrames == 2
\* The clock (time.time()) stops advancing at this tick.
MaxTime == 1
\* Image buffers have up to this many rows and columns.
MaxH == 2
MaxW == 2
\* ... and up to this many pixels.
MaxPixels == 4

\* ---------------------------------------------------- program constants ---
\* A queue built with room for two records.
QMaxSizeTwo == 1 + 1
\* queue.Queue(maxsize=1), shared_state.py:63-67
QMaxSize == 1
\* FusionWorker.max_time_skew (0.25 s) in whole clock ticks; a tick is longer
\* than 0.25 s, so two timestamps are within the skew iff they share a tick.
MaxTimeSkew == 0

Cams == {"cam1", "cam2"}
Queues == {"cam1_data", "cam1_view", "cam2_data", "cam2_view", "fusion"}
ViewModes == {"cam1", "cam2", "fusion"}

DataQ(c) == IF c = "cam1" THEN "cam1_data" ELSE "cam2_data"
ViewQ(c) == IF c = "cam1" THEN "cam1_view" ELSE "cam2_view"

\* No frame held (a local that has not been assigned in this cycle).
NoFrame == [cam |-> "none", n |-> 0, ts |-> 0]

\* History of a worker after its first stop() call returned: whether it has
\* returned, the increments of the frame counter and the puts per queue since.
NoSince == [returned |-> FALSE, incs |-> 0, puts |-> [n \in Queues |-> 0]]

\* An image: an array of shape (h, w) (ch = 0) or (h, w, ch), its pixels a
\* function of <<row, column>>, counted from 0.
NoImage == [h |-> 0, w |-> 0, ch |-> 0, at |-> <<>>]
\* No call of an image function.
NoCall == [op |-> "none", a |-> NoImage, b |-> NoImage, m |-> NoImage,
           x |-> 0, y |-> 0, use |-> FALSE, out |-> [kind |-> "none"]]

\* Flask serves every request on a thread of its own (app.run(threaded=True),
\* main.py:126): the requests that can be under way at once.
Requests == {1, 2}
\* The recording threads that can exist at once.
Jobs == {1, 2, 3}
\* A request that has not arrived. best and final are <<>> for None and <<e>>
\* for the exposure e; measured lists the <<exposure, saturation>> pairs
\* of the sweep.
NoTune == [pc |-> "idle", list |-> <<>>, i |-> 0, best |-> <<>>, final |-> <<>>,
           measured |-> <<>>, raised |-> FALSE]
\* No recording thread, record_state['active'] = False.
NoJob == [pc |-> "none", written |-> 0, error |-> FALSE]
NoRecording == [active |-> FALSE, job |-> [j \in Jobs |-> NoJob]]

VARIABLES
    cfg,                \* [uc689, test]: USE_UC689, USE_TEST_MODE; [target]: the
                        \* worker the external caller of stop() or of the pause
                        \* flag acts on ("none": no external caller, "all":
                        \* stop() on every worker, "tuner"/"tuners": one/two
                        \* /tune_cam2_exposure requests, "record": /record_10s
                        \* requests); [stall]: the camera whose
                        \* device stops delivering frames ("none": neither)
    now,                \* time.time(), in ticks
    shutdown_requested, \* the process-wide threading.Event
    q,                  \* queue name -> sequence of records
    running,            \* worker -> self.running
    pause_capture,      \* camera worker -> self.pause_capture
    cap,                \* camera worker -> "none" | "open" | "stalled" |
                        \* "released"
    frame_counter,      \* worker -> self.frame_counter
    pc,                 \* worker -> position in run()
    half,               \* camera worker -> index of the half being published
    qi,                 \* camera worker -> 1 (data queue) or 2 (view queue)
    frame_data,         \* worker -> the record being published
    frame1, frame2,     \* fusion worker: frames dequeued in this cycle
    feeder,             \* flask_feeder: "loop" | "get" | "done"
    stopPc,             \* camera worker -> "idle" | "release": stop() in progress
    \* history variables (observers, not program state)
    pubCount,           \* queue -> number of records put into it
    since,              \* worker -> what it did after its first stop() returned
    pauseHist,          \* camera worker -> "none" | "inflight": its cycle was under
                        \* way when the flag was set | "polled": it has found the
                        \* flag set | "resumed": in its first cycle after that
    stopError,          \* a stop() call raised
    dequeued,           \* queue -> the numbers of the records removed from it
                        \* by get() or get_nowait(), in the order of removal
    \* flask_server.py: request threads (app.run(threaded=True))
    tuner,              \* request -> the /tune_cam2_exposure handler: position,
                        \* arguments and locals of auto_exposure_tune
    rec,                \* record_state['active'] and the _record_current_view
                        \* threads
    \* main.py
    handler,            \* shutdown_handler: <<"idle">> (not called) |
                        \* <<"stop", w>> | <<"join", w>> | <<"exit">> |
                        \* <<"raised">> (a stop() call raised)
    \* the image functions of fusion_worker.py, called on their own
    px                  \* [op, a, b, m, x, y, use, out]: the call, its arguments
                        \* and its result (out.kind = "none": not yet made)

vars == <<cfg, now, shutdown_requested, q, running, pause_capture, cap,
          frame_counter, pc, half, qi, frame_data, frame1, frame2, feeder,
          stopPc, pubCount, since, pauseHist, stopError, dequeued, tuner,
          rec, handler, px>>

Workers == Cams \cup {"fusion"}

\* ---------------------------------------------------------- queue.Queue ---
Full(s) == Len(s) >= QMaxSize
Empty(s) == Len(s) = 0
QPut(s, item) == Append(s, item)
\* A get that hands out the oldest record and leaves it in the queue.
QGetKeep(s) == s
QGet(s) == Tail(s)
\* The history of queue n after a get()/get_nowait() on its contents s.
NoteGet(n, s) ==
    IF Empty(s) THEN dequeued ELSE [dequeued EXCEPT ![n] = Append(@, Head(s).n)]

\* ------------------------------------------------------- configuration ---
\* Worker threads that exist: in split mode cam2 is None (shared_state.py:125).
Present(c) == c = "cam1" \/ ~cfg.uc689
\* CameraWorker.test_mode; the split worker is built with the default False.
TestMode(c) == cfg.test
\* A split worker that publishes the frame whole, as one record.
HalvesWhole(c) == <<c>>
\* The halves a worker publishes per cycle, each to a data and a view queue.
Halves(c) == IF cfg.uc689 THEN <<"cam1", "cam2">> ELSE <<c>>
Target(c) ==
    IF qi[c] = 1 THEN DataQ(Halves(c)[half[c]]) ELSE ViewQ(Halves(c)[half[c]])

\* USE_UC689 and USE_TEST_MODE as shared_state.py combines them.
Configs == {<<FALSE, FALSE>>, <<FALSE, TRUE>>, <<TRUE, FALSE>>}

\* The state after shared_state.py has built the queues and the workers, in
\* one of the configurations in C.
InitPipeline(C) ==
    /\ cfg \in C
    /\ cfg.target = "cam2" => ~cfg.uc689
    /\ now = 0
    /\ shutdown_requested = FALSE
    /\ q = [n \in Queues |-> <<>>]
    /\ running = [w \in Workers |-> TRUE]
    /\ pause_capture = [c \in Cams |-> FALSE]
    /\ cap = [c \in Cams |->
                IF c = "cam2" /\ cfg.uc689 THEN "none"
                ELSE IF cfg.test THEN "none" ELSE "open"]
    /\ frame_counter = [w \in Workers |-> 0]
    /\ pc = [w \in Workers |-> IF w = "cam2" /\ cfg.uc689 THEN "absent" ELSE "loop"]
    /\ half = [c \in Cams |-> 1]
    /\ qi = [c \in Cams |-> 1]
    /\ frame_data = [w \in Workers |-> NoFrame]
    /\ frame1 = NoFrame
    /\ frame2 = NoFrame
    /\ feeder = "loop"
    /\ stopPc = [c \in Cams |-> "idle"]
    /\ pubCount = [n \in Queues |-> 0]
    /\ since = [c \in Cams |-> NoSince]
    /\ pauseHist = [c \in Cams |-> "none"]
    /\ stopError = FALSE
    /\ dequeued = [n \in Queues |-> <<>>]
    /\ tuner = [r \in Requests |-> NoTune]
    /\ rec = NoRecording
    /\ handler = <<"idle">>
InitFrom(C) == InitPipeline(C) /\ px = NoCall

\* The start for an external caller acting on one of the workers in T.
InitWith(T) ==
    InitFrom({[uc689 |-> k[1], test |-> k[2], target |-> t, stall |-> "none"] :
                 k \in Configs, t \in T})

Init == InitWith({"none"})

\* ------------------------------------------------------- CameraWorker ---
\* A loop that consults only the shutdown signal.
LoopConditionNoRunning(c) == ~shutdown_requested
\* `while self.running and not shutdown_requested.is_set()`
LoopCondition(c) == running[c] /\ ~shutdown_requested

\* A worker that never looks at the flag.
PausedNever(c) == FALSE
\* A worker that, once started, never leaves the pause branch.
PausedAlways(c) == TRUE
\* `if self.pause_capture.is_set(): time.sleep(0.01); continue`
Paused(c) == pause_capture[c]

\* The record built for half h of worker c at the current time.
NewFrame(c, h) ==
    [cam |-> Halves(c)[h], n |-> pubCount[DataQ(Halves(c)[h])] + 1, ts |-> now]

envVars == <<cfg, px, handler, tuner, rec, now, shutdown_requested, running, pause_capture, cap, feeder,
             stopPc, stopError>>
fusionVars == <<frame1, frame2>>
camVars == <<half, qi, pauseHist, since>>

\* The history of what worker c did after its first stop() returned.
NotePut(c, n) ==
    IF since[c].returned THEN [since EXCEPT ![c].puts[n] = @ + 1] ELSE since
NoteInc(c) ==
    IF since[c].returned THEN [since EXCEPT ![c].incs = @ + 1] ELSE since

CamLoop(c) ==
    /\ pc[c] = "loop"
    /\ IF LoopCondition(c)
       THEN /\ frame_counter[c] < MaxFrames
            /\ pc' = [pc EXCEPT ![c] = "pause_check"]
       ELSE pc' = [pc EXCEPT ![c] = "done"]
    /\ pauseHist' = [pauseHist EXCEPT ![c] = IF @ = "polled" THEN @ ELSE "none"]
    /\ UNCHANGED <<envVars, fusionVars, q, frame_counter, half, qi, frame_data,
                   pubCount, dequeued, since>>

CamPauseCheck(c) ==
    /\ pc[c] = "pause_check"
    /\ pc' = [pc EXCEPT ![c] = IF Paused(c) THEN "loop" ELSE "acquire"]
    /\ pauseHist' = [pauseHist EXCEPT ![c] =
                       IF pause_capture[c] THEN "polled"
                       ELSE IF @ = "polled" THEN "resumed" ELSE @]
    /\ UNCHANGED <<envVars, fusionVars, q, frame_counter, half, qi, frame_data,
                   pubCount, dequeued, since>>

\* The frame source delivers: the test image, or grab()/read() with ret true.
\* A released VideoCapture delivers nothing.
CamAcquireOk(c) ==
    /\ pc[c] = "acquire"
    /\ TestMode(c) \/ cap[c] = "open"
    /\ half' = [half EXCEPT ![c] = 1]
    /\ qi' = [qi EXCEPT ![c] = 1]
    /\ frame_data' = [frame_data EXCEPT ![c] = NewFrame(c, 1)]
    /\ pc' = [pc EXCEPT ![c] = "full"]
    /\ UNCHANGED <<envVars, fusionVars, q, frame_counter, pubCount, dequeued, pauseHist, since>>

\* A failed read that ends the loop instead of continuing it.
AfterReadFailureBreak == "done"
\* `continue` after a failed read: back to the loop condition.
AfterReadFailure == "loop"

\* `if not ret: print; time.sleep(0.05); continue`
CamAcquireFail(c) ==
    /\ pc[c] = "acquire"
    /\ ~TestMode(c)
    /\ pc' = [pc EXCEPT ![c] = AfterReadFailure]
    /\ UNCHANGED <<envVars, fusionVars, q, frame_counter, half, qi, frame_data,
                   pubCount, dequeued, pauseHist, since>>

\* `if q.full():`
CamFull(c) ==
    /\ pc[c] = "full"
    /\ pc' = [pc EXCEPT ![c] = IF Full(q[Target(c)]) THEN "evict" ELSE "put"]
    /\ UNCHANGED <<envVars, fusionVars, q, frame_counter, half, qi, frame_data,
                   pubCount, dequeued, pauseHist, since>>

\* A publish that forgets to evict.
EvictNothing(s) == s
\* `try: q.get_nowait() except queue.Empty: pass`
Evict(s) == IF Empty(s) THEN s ELSE QGet(s)

CamEvict(c) ==
    /\ pc[c] = "evict"
    /\ q' = [q EXCEPT ![Target(c)] = Evict(@)]
    /\ dequeued' = NoteGet(Target(c), q[Target(c)])
    /\ pc' = [pc EXCEPT ![c] = "put"]
    /\ UNCHANGED <<envVars, fusionVars, frame_counter, half, qi, frame_data,
                   pubCount, pauseHist, since>>

\* `q.put(frame_data)`: blocks while the queue is full.
CamPut(c) ==
    /\ pc[c] = "put"
    /\ ~Full(q[Target(c)])
    /\ q' = [q EXCEPT ![Target(c)] = QPut(@, frame_data[c])]
    /\ pubCount' = [pubCount EXCEPT ![Target(c)] = @ + 1]
    /\ since' = NotePut(c, Target(c))
    /\ IF qi[c] = 1
       THEN /\ qi' = [qi EXCEPT ![c] = 2]
            /\ pc' = [pc EXCEPT ![c] = "full"]
       ELSE /\ qi' = qi
            /\ pc' = [pc EXCEPT ![c] = "count"]
    /\ UNCHANGED <<envVars, dequeued, fusionVars, frame_counter, half, frame_data, pauseHist>>

\* An increment that is lost.
IncCounterLost(v) == v
\* `self.frame_counter += 1`
IncCounter(v) == v + 1

\* `self.frame_counter += 1`, then the next half or `time.sleep(0.001)`.
CamCount(c) ==
    /\ pc[c] = "count"
    /\ frame_counter' = [frame_counter EXCEPT ![c] = IncCounter(@)]
    /\ since' = NoteInc(c)
    /\ IF half[c] < Len(Halves(c))
       THEN /\ half' = [half EXCEPT ![c] = @ + 1]
            /\ qi' = [qi EXCEPT ![c] = 1]
            /\ frame_data' = [frame_data EXCEPT ![c] = NewFrame(c, half[c] + 1)]
            /\ pc' = [pc EXCEPT ![c] = "full"]
       ELSE /\ half' = [half EXCEPT ![c] = 1]
            /\ qi' = [qi EXCEPT ![c] = 1]
            /\ frame_data' = [frame_data EXCEPT ![c] = NoFrame]
            /\ pc' = [pc EXCEPT ![c] = "loop"]
    /\ UNCHANGED <<envVars, fusionVars, q, pubCount, dequeued, pauseHist>>

CamStep(c) ==
    \/ CamLoop(c)
    \/ CamPauseCheck(c)
    \/ CamAcquireOk(c)
    \/ CamAcquireFail(c)
    \/ CamFull(c)
    \/ CamEvict(c)
    \/ CamPut(c)
    \/ CamCount(c)

\* ------------------------------------------------------- FusionWorker ---
\* A loop that consults the shutdown event instead of the running flag.
FusionLoopConditionEvent == ~shutdown_requested
\* `while self.running:` (the shutdown event is not consulted)
FusionLoopCondition == running["fusion"]

FusionLoop ==
    /\ pc["fusion"] = "loop"
    /\ pc' = [pc EXCEPT !["fusion"] = IF FusionLoopCondition THEN "get1" ELSE "done"]
    /\ frame1' = NoFrame
    /\ frame2' = NoFrame
    /\ UNCHANGED <<envVars, camVars, q, frame_counter, frame_data, pubCount, dequeued>>

\* `frame1 = self.cam1_queue.get(timeout=1.0)`
FusionGet1 ==
    /\ pc["fusion"] = "get1"
    /\ ~Empty(q["cam1_data"])
    /\ frame1' = Head(q["cam1_data"])
    /\ q' = [q EXCEPT !["cam1_data"] = QGet(@)]
    /\ dequeued' = NoteGet("cam1_data", q["cam1_data"])
    /\ pc' = [pc EXCEPT !["fusion"] = "get2"]
    /\ UNCHANGED <<envVars, camVars, frame2, frame_counter, frame_data, pubCount>>

\* A timeout that falls through to the fusion of the pair.
AfterTimeoutFallThrough == "full"
\* `continue` after queue.Empty: the cycle restarts.
AfterTimeout == "loop"

\* `except queue.Empty: print; continue`
FusionGet1Timeout ==
    /\ pc["fusion"] = "get1"
    /\ Empty(q["cam1_data"])
    /\ pc' = [pc EXCEPT !["fusion"] = AfterTimeout]
    /\ UNCHANGED <<envVars, camVars, fusionVars, q, frame_counter, frame_data,
                   pubCount, dequeued>>

Abs(x) == IF x < 0 THEN -x ELSE x

\* A check that also rejects a pair whose skew equals the tolerance.
SkewTooLargeOrEqual(ts1, ts2) == Abs(ts1 - ts2) >= MaxTimeSkew
\* `if abs(ts1 - ts2) > self.max_time_skew: ... continue`
SkewTooLarge(ts1, ts2) == Abs(ts1 - ts2) > MaxTimeSkew

\* `frame2 = self.cam2_queue.get(timeout=1.0)`, the skew check, and the fusion
\* of the pair into fused_data (local computation up to the next queue call).
FusionGet2 ==
    /\ pc["fusion"] = "get2"
    /\ ~Empty(q["cam2_data"])
    /\ frame2' = Head(q["cam2_data"])
    /\ q' = [q EXCEPT !["cam2_data"] = QGet(@)]
    /\ dequeued' = NoteGet("cam2_data", q["cam2_data"])
    /\ IF SkewTooLarge(frame1.ts, Head(q["cam2_data"]).ts)
       THEN /\ pc' = [pc EXCEPT !["fusion"] = "loop"]
            /\ frame_data' = frame_data
       ELSE /\ pc' = [pc EXCEPT !["fusion"] = "full"]
            /\ frame_data' = [frame_data EXCEPT !["fusion"] =
                                [cam |-> "fusion", n |-> pubCount["fusion"] + 1,
                                 ts |-> now]]
    /\ UNCHANGED <<envVars, camVars, frame1, frame_counter, pubCount>>

FusionGet2Timeout ==
    /\ pc["fusion"] = "get2"
    /\ Empty(q["cam2_data"])
    /\ pc' = [pc EXCEPT !["fusion"] = AfterTimeout]
    /\ UNCHANGED <<envVars, camVars, fusionVars, q, frame_counter, frame_data,
                   pubCount, dequeued>>

\* `if self.fusion_queue.full():`
FusionFull ==
    /\ pc["fusion"] = "full"
    /\ pc' = [pc EXCEPT !["fusion"] = IF Full(q["fusion"]) THEN "evict" ELSE "put"]
    /\ UNCHANGED <<envVars, camVars, fusionVars, q, frame_counter, frame_data,
                   pubCount, dequeued>>

FusionEvict ==
    /\ pc["fusion"] = "evict"
    /\ q' = [q EXCEPT !["fusion"] = Evict(@)]
    /\ dequeued' = NoteGet("fusion", q["fusion"])
    /\ pc' = [pc EXCEPT !["fusion"] = "put"]
    /\ UNCHANGED <<envVars, camVars, fusionVars, frame_counter, frame_data,
                   pubCount>>

\* `self.fusion_queue.put(fused_data)`
FusionPut ==
    /\ pc["fusion"] = "put"
    /\ ~Full(q["fusion"])
    /\ q' = [q EXCEPT !["fusion"] = QPut(@, frame_data["fusion"])]
    /\ pubCount' = [pubCount EXCEPT !["fusion"] = @ + 1]
    /\ pc' = [pc EXCEPT !["fusion"] = "count"]
    /\ UNCHANGED <<envVars, dequeued, camVars, fusionVars, frame_counter, frame_data>>

\* `self.frame_counter += 1; time.sleep(0.001)`
FusionCount ==
    /\ pc["fusion"] = "count"
    /\ frame_counter' = [frame_counter EXCEPT !["fusion"] = IncCounter(@)]
    /\ frame_data' = [frame_data EXCEPT !["fusion"] = NoFrame]
    /\ pc' = [pc EXCEPT !["fusion"] = "loop"]
    /\ UNCHANGED <<envVars, camVars, fusionVars, q, pubCount, dequeued>>

FusionStep ==
    \/ FusionLoop
    \/ FusionGet1
    \/ FusionGet1Timeout
    \/ FusionGet2
    \/ FusionGet2Timeout
    \/ FusionFull
    \/ FusionEvict
    \/ FusionPut
    \/ FusionCount

\* ------------------------------------------------------- flask_feeder ---
workerVars == <<running, pause_capture, cap, frame_counter, pc, half, qi,
                frame_data, frame1, frame2, stopPc, pubCount, since,
                pauseHist, stopError>>

\* A feeder that reads what the fusion worker reads.
FeederQueueData(view) ==
    IF view = "cam1" THEN "cam1_data"
    ELSE IF view = "cam2" THEN "cam2_data" ELSE "fusion"
\* The queue flask_feeder reads for each view mode.
FeederQueue(view) ==
    IF view = "cam1" THEN "cam1_view"
    ELSE IF view = "cam2" THEN "cam2_view" ELSE "fusion"

\* `while not shutdown_requested.is_set():`
FeederLoop ==
    /\ feeder = "loop"
    /\ feeder' = IF shutdown_requested THEN "done" ELSE "get"
    /\ UNCHANGED <<cfg, px, handler, tuner, rec, now, shutdown_requested, q, workerVars, dequeued>>

\* `view = current_mode['view']; frame = <queue>.get(timeout=1.0);
\* update_<view>(frame)`: the view is whatever /set_mode last stored.
FeederGet ==
    /\ feeder = "get"
    /\ \E view \in ViewModes :
          /\ ~Empty(q[FeederQueue(view)])
          /\ q' = [q EXCEPT ![FeederQueue(view)] = QGet(@)]
          /\ dequeued' = NoteGet(FeederQueue(view), q[FeederQueue(view)])
    /\ feeder' = "loop"
    /\ UNCHANGED <<cfg, px, handler, tuner, rec, now, shutdown_requested, workerVars>>

\* `except queue.Empty: pass`
FeederTimeout ==
    /\ feeder = "get"
    /\ \E view \in ViewModes : Empty(q[FeederQueue(view)])
    /\ feeder' = "loop"
    /\ UNCHANGED <<cfg, px, handler, tuner, rec, now, shutdown_requested, q, workerVars, dequeued>>

FeederStep == FeederLoop \/ FeederGet \/ FeederTimeout

\* ---------------------------------------------------------- environment ---
\* time.time() advances.
Tick ==
    /\ now < MaxTime
    /\ now' = now + 1
    /\ UNCHANGED <<cfg, px, handler, tuner, rec, shutdown_requested, q, feeder, workerVars, dequeued>>

\* `shutdown_requested.set()`
SetShutdown ==
    /\ ~shutdown_requested
    /\ shutdown_requested' = TRUE
    /\ UNCHANGED <<cfg, px, handler, tuner, rec, now, q, feeder, workerVars, dequeued>>

\* The worker objects that are not None: `if cam1:`, `if cam2:`; fusion is
\* always built.
Built(w) == w = "fusion" \/ Present(w)

\* shutdown_handler stops the workers one after the other, each once:
\* `cam1.stop(); cam2.stop(); fusion.stop()`.
HandlerAt(w) ==
    /\ running[w]
    /\ w = "cam2" => ~running["cam1"] /\ stopPc["cam1"] = "idle"
    /\ w = "fusion" => ~running["cam2"] /\ stopPc["cam2"] = "idle"
\* The workers an external caller stops: one of them, again and again, or all
\* of them as shutdown_handler does.
StopsWorker(w) ==
    \/ cfg.target = w
    \/ cfg.target = "all" /\ HandlerAt(w)
    \/ handler = <<"stop", w>> /\ Built(w)

\* shutdown_handler's statements after `shutdown_requested.set()`, in order:
\* the three stop() calls, then the three join() calls, then `sys.exit(0)`.
HandlerOrder ==
    <<<<"stop", "cam1">>, <<"stop", "cam2">>, <<"stop", "fusion">>,
      <<"join", "cam1">>, <<"join", "cam2">>, <<"join", "fusion">>,
      <<"exit">>>>
\* The position after the statement at h has returned; a stop() called by
\* another thread leaves the handler where it is.
HandlerAfter(h) ==
    IF \E i \in 1 .. Len(HandlerOrder) - 1 : HandlerOrder[i] = h
    THEN HandlerOrder[(CHOOSE i \in 1 .. Len(HandlerOrder) - 1 :
                          HandlerOrder[i] = h) + 1]
    ELSE h
\* An exception in a statement of the handler ends it.
HandlerRaise(h) == IF h = <<"idle">> THEN h ELSE <<"raised">>

\* The first stop() call on worker c by a thread of its own returns: its
\* history starts. The calls of shutdown_handler start none.
Returned(c) ==
    IF handler = <<"idle">> THEN [since EXCEPT ![c].returned = TRUE] ELSE since

\* `if not self.test_mode:` guards the release in CameraWorker.stop.
StopReleases(c) == ~TestMode(c)

\* CameraWorker.stop, first statement: `self.running = False`
CamStopBegin(c) ==
    /\ StopsWorker(c)
    /\ stopPc[c] = "idle"
    /\ running' = [running EXCEPT ![c] = FALSE]
    /\ IF StopReleases(c)
       THEN /\ stopPc' = [stopPc EXCEPT ![c] = "release"]
            /\ since' = since
            /\ handler' = handler
       ELSE /\ stopPc' = stopPc
            /\ since' = Returned(c)
            /\ handler' = HandlerAfter(handler)
    /\ UNCHANGED <<cfg, px, tuner, rec, now, shutdown_requested, q, feeder, pause_capture, cap,
                   frame_counter, pc, half, qi, frame_data, frame1, frame2,
                   pubCount, dequeued, pauseHist, stopError>>

\* A release that fails on a handle that is not open.
ReleaseHandleOnce(h) == IF h = "open" THEN "released" ELSE "error"
\* cv2.VideoCapture.release(): closes the device; releasing a released
\* handle is a no-op. A worker built in test mode has no `cap` attribute, so
\* `self.cap.release()` would raise there.
ReleaseHandle(h) == IF h = "none" THEN "error" ELSE "released"

\* CameraWorker.stop, second statement: `self.cap.release()`
CamStopRelease(c) ==
    /\ stopPc[c] = "release"
    /\ IF ReleaseHandle(cap[c]) = "error"
       THEN /\ stopError' = TRUE
            /\ cap' = cap
            /\ handler' = HandlerRaise(handler)
       ELSE /\ stopError' = stopError
            /\ cap' = [cap EXCEPT ![c] = ReleaseHandle(@)]
            /\ handler' = HandlerAfter(handler)
    /\ stopPc' = [stopPc EXCEPT ![c] = "idle"]
    /\ since' = Returned(c)
    /\ UNCHANGED <<cfg, px, tuner, rec, now, shutdown_requested, q, feeder, running, pause_capture,
                   frame_counter, pc, half, qi, frame_data, frame1, frame2,
                   pubCount, dequeued, pauseHist>>

\* FusionWorker.stop: `self.running = False`
FusionStop ==
    /\ StopsWorker("fusion")
    /\ running' = [running EXCEPT !["fusion"] = FALSE]
    /\ handler' = HandlerAfter(handler)
    /\ UNCHANGED <<cfg, px, tuner, rec, now, shutdown_requested, q, feeder, pause_capture, cap,
                   frame_counter, pc, half, qi, frame_data, frame1, frame2,
                   stopPc, pubCount, dequeued, since, pauseHist, stopError>>

\* shutdown_handler, first statement: `shutdown_requested.set()`. SIGINT
\* arrives at any time while the threads run.
HandlerSet ==
    /\ cfg.target = "handler"
    /\ handler = <<"idle">>
    /\ shutdown_requested' = TRUE
    /\ handler' = <<"stop", "cam1">>
    /\ UNCHANGED <<cfg, px, tuner, rec, now, q, feeder, workerVars, dequeued>>

\* `if cam2:` with cam2 None: the stop() and the join() are skipped.
HandlerSkip ==
    /\ \E w \in Workers : handler \in {<<"stop", w>>, <<"join", w>>} /\ ~Built(w)
    /\ handler' = HandlerAfter(handler)
    /\ UNCHANGED <<cfg, px, tuner, rec, now, shutdown_requested, q, feeder,
                   workerVars, dequeued>>

\* `<worker>.join()`: returns once the worker's run() has returned.
HandlerJoin(w) ==
    /\ handler = <<"join", w>>
    /\ Built(w)
    /\ pc[w] = "done"
    /\ handler' = HandlerAfter(handler)
    /\ UNCHANGED <<cfg, px, tuner, rec, now, shutdown_requested, q, feeder,
                   workerVars, dequeued>>

\* shutdown_handler after its first statement, up to `sys.exit(0)`.
HandlerRun ==
    \/ HandlerSkip
    \/ \E c \in Cams : CamStopBegin(c) \/ CamStopRelease(c)
    \/ FusionStop
    \/ \E w \in Workers : HandlerJoin(w)
HandlerStep == HandlerSet \/ HandlerRun

\* The device of camera c stops delivering frames: from here on every
\* `ret, frame = self.cap.read()` of its worker returns ret = False.
Stall(c) ==
    /\ c = cfg.stall
    /\ cap[c] = "open"
    /\ cap' = [cap EXCEPT ![c] = "stalled"]
    /\ UNCHANGED <<cfg, px, handler, tuner, rec, now, shutdown_requested, q, feeder, running,
                   pause_capture, frame_counter, pc, half, qi, frame_data,
                   frame1, frame2, stopPc, pubCount, dequeued, since, pauseHist,
                   stopError>>

\* Positions of run() between the pause check and the end of the cycle.
InCycle == {"acquire", "full", "evict", "put", "count"}

\* `<worker>.pause_capture.set()` by an external thread
PauseSet(c) ==
    /\ c = cfg.target \/ (cfg.target = "handler" /\ c = "cam2" /\ Present(c))
    /\ ~pause_capture[c]
    /\ pause_capture' = [pause_capture EXCEPT ![c] = TRUE]
    /\ pauseHist' = [pauseHist EXCEPT ![c] =
                       IF pc[c] \in InCycle THEN "inflight" ELSE "none"]
    /\ UNCHANGED <<cfg, px, handler, tuner, rec, now, shutdown_requested, q, feeder, running, cap,
                   frame_counter, pc, half, qi, frame_data, frame1, frame2,
                   stopPc, pubCount, dequeued, since, stopError>>

\* `<worker>.pause_capture.clear()` by an external thread
PauseClear(c) ==
    /\ pause_capture[c]
    /\ pause_capture' = [pause_capture EXCEPT ![c] = FALSE]
    /\ pauseHist' = [pauseHist EXCEPT ![c] = IF @ = "inflight" THEN "none" ELSE @]
    /\ UNCHANGED <<cfg, px, handler, tuner, rec, now, shutdown_requested, q, feeder, running, cap,
                   frame_counter, pc, half, qi, frame_data, frame1, frame2,
                   stopPc, pubCount, dequeued, since, stopError>>

\* ------------------------------------- flask_server.py: /tune_cam2_exposure ---
\* target_pct = 1.5 (camera_control.py:38), in tenths of a percent.
TargetPct == 15
\* Saturation a frame can show: below, at and above the target.
Pcts == {10, 15, 20}
\* The exposures of a sweep that are followed: a sweep that has got past
\* them is left where it is.
MaxSweep == 2
\* exposure_list: the built-in list, from high to low exposure (the only one
\* /tune_cam2_exposure uses), or a list of the caller's: one that runs the
\* other way round, and one that ends on the exposure 0.
BuiltInList == <<200, 100, 50, 30, 20, 10, 5, 2>>
ExposureLists == {BuiltInList, <<100, 200>>, <<100, 0>>}

\* The request threads that arrive.
Tuners ==
    IF cfg.target = "tuner" THEN {1}
    ELSE IF cfg.target = "tuners" THEN Requests ELSE {}

\* The lists a request sweeps: the route passes none, so the built-in one;
\* auto_exposure_tune called with a list of the caller's takes either.
ListsOf(r) == IF cfg.target = "tuner" THEN {BuiltInList} ELSE ExposureLists

\* Everything a request thread leaves alone.
tunerFrame == <<cfg, px, handler, rec, now, shutdown_requested, running, cap, feeder,
                frame_counter, pc, half, qi, frame_data, frame1, frame2,
                stopPc, pubCount, since, stopError>>

\* `cam2.pause_capture.set()`, then auto_exposure_tune up to its loop:
\* `best_exposure = None; for exposure in exposure_list:`
TuneEnter(r) ==
    /\ r \in Tuners
    /\ tuner[r].pc = "idle"
    /\ \E l \in ListsOf(r) :
          tuner' = [tuner EXCEPT ![r] =
                      [NoTune EXCEPT !.pc = "set_param", !.list = l, !.i = 1]]
    /\ pause_capture' = [pause_capture EXCEPT !["cam2"] = TRUE]
    /\ pauseHist' = IF pause_capture["cam2"] THEN pauseHist
                    ELSE [pauseHist EXCEPT !["cam2"] =
                            IF pc["cam2"] \in InCycle THEN "inflight" ELSE "none"]
    /\ UNCHANGED <<tunerFrame, q, dequeued>>

\* `set_camera_param(cam_device, exposure_param, exposure); time.sleep(0.1)`.
\* subprocess.run raises what set_camera_param does not catch (v4l2-ctl is
\* not installed): the exception leaves auto_exposure_tune.
TuneSetParam(r) ==
    /\ tuner[r].pc = "set_param"
    /\ tuner[r].i <= MaxSweep
    /\ \E ok \in BOOLEAN :
          tuner' = [tuner EXCEPT ![r].pc = IF ok THEN "get" ELSE "clear",
                                 ![r].raised = ~ok]
    /\ UNCHANGED <<tunerFrame, q, dequeued, pause_capture, pauseHist>>

\* `if saturation_pct <= target_pct:`
MeetsTarget(pct) == pct <= TargetPct

\* `if best_exposure:`: None and 0 are both false.
Truthy(best) == best # <<>> /\ best[1] # 0

\* The rest of the loop body after this exposure was not taken: the next
\* exposure of the list, or the end of the loop.
TuneContinue(t) ==
    IF t.i < Len(t.list) THEN [t EXCEPT !.i = @ + 1, !.pc = "set_param"]
    ELSE [t EXCEPT !.pc = "final"]

\* `best_exposure = exposure; break`
Select(t, e) == [t EXCEPT !.best = <<e>>, !.pc = "final"]

\* `frame_data = cam_queue.get(timeout=1.0)`, the saturation of its mask, and
\* `if saturation_pct <= target_pct: best_exposure = exposure; break`
TuneGet(r) ==
    /\ tuner[r].pc = "get"
    /\ ~Empty(q["cam2_view"])
    /\ q' = [q EXCEPT !["cam2_view"] = QGet(@)]
    /\ dequeued' = NoteGet("cam2_view", q["cam2_view"])
    /\ \E pct \in Pcts :
          LET t == tuner[r]
              e == t.list[t.i]
              m == [t EXCEPT !.measured = Append(@, <<e, pct>>)]
          IN  tuner' = [tuner EXCEPT ![r] =
                          IF MeetsTarget(pct)
                          THEN Select(m, e)
                          ELSE TuneContinue(m)]
    /\ UNCHANGED <<tunerFrame, pause_capture, pauseHist>>

\* `except queue.Empty: print; continue`
TuneGetTimeout(r) ==
    /\ tuner[r].pc = "get"
    /\ Empty(q["cam2_view"])
    /\ tuner' = [tuner EXCEPT ![r] = TuneContinue(@)]
    /\ UNCHANGED <<tunerFrame, q, dequeued, pause_capture, pauseHist>>

\* `if best_exposure: set_camera_param(..., best_exposure) else: print`
TuneFinal(r) ==
    /\ tuner[r].pc = "final"
    /\ IF Truthy(tuner[r].best)
       THEN \E ok \in BOOLEAN :
               tuner' = [tuner EXCEPT ![r].final = IF ok THEN tuner[r].best ELSE <<>>,
                                      ![r].raised = ~ok,
                                      ![r].pc = "clear"]
       ELSE tuner' = [tuner EXCEPT ![r].pc = "clear"]
    /\ UNCHANGED <<tunerFrame, q, dequeued, pause_capture, pauseHist>>

\* `finally: cam2.pause_capture.clear()`
TuneClear(r) ==
    /\ tuner[r].pc = "clear"
    /\ tuner' = [tuner EXCEPT ![r].pc = "done"]
    /\ pause_capture' = [pause_capture EXCEPT !["cam2"] = FALSE]
    /\ pauseHist' = [pauseHist EXCEPT !["cam2"] = IF @ = "inflight" THEN "none" ELSE @]
    /\ UNCHANGED <<tunerFrame, q, dequeued>>

TuneStep(r) ==
    \/ TuneEnter(r)
    \/ TuneSetParam(r)
    \/ TuneGet(r)
    \/ TuneGetTimeout(r)
    \/ TuneFinal(r)
    \/ TuneClear(r)

\* --------------------------------------------- flask_server.py: /record_10s ---
recFrame == <<cfg, px, handler, tuner, now, shutdown_requested, q, feeder, running,
              pause_capture, cap, frame_counter, pc, half, qi, frame_data,
              frame1, frame2, stopPc, pubCount, since, pauseHist, stopError,
              dequeued>>

\* record_10s, under recording_lock: `if not record_state['active']:
\* threading.Thread(target=_record_current_view, ...).start()`, else the
\* request is answered without a new thread.
Record10s(j) ==
    /\ cfg.target = "record"
    /\ rec.job[j].pc \in {"none", "ended"}
    /\ rec' = IF ~rec.active
              THEN [rec EXCEPT !.job[j] = [NoJob EXCEPT !.pc = "started"]]
              ELSE rec
    /\ UNCHANGED recFrame

\* _record_current_view up to `record_state.update({'active': True, ...})`
\* under recording_lock; os.makedirs, outside the try, can raise and end the
\* thread.
JobSetup(j) ==
    /\ rec.job[j].pc = "started"
    /\ \E ok \in BOOLEAN :
          rec' = IF ok
                 THEN [rec EXCEPT !.active = TRUE, !.job[j].pc = "recording"]
                 ELSE [rec EXCEPT !.job[j].pc = "ended", !.job[j].error = TRUE]
    /\ UNCHANGED recFrame

\* One pass of the loop that writes a frame: `writer.write(frame_bgr);
\* frames_written += 1; time.sleep(dt)`
JobWrite(j) ==
    /\ rec.job[j].pc = "recording"
    /\ rec.job[j].written < MaxFrames
    /\ rec' = [rec EXCEPT !.job[j].written = @ + 1]
    /\ UNCHANGED recFrame

\* The loop ends: the time is up or the writer did not open (`break`), or an
\* exception reached `except Exception`.
JobEnd(j) ==
    /\ rec.job[j].pc = "recording"
    /\ \E err \in BOOLEAN :
          rec' = [rec EXCEPT !.job[j].pc = "finally", !.job[j].error = err]
    /\ UNCHANGED recFrame

\* `finally: ... with recording_lock: record_state['active'] = False`
JobFinally(j) ==
    /\ rec.job[j].pc = "finally"
    /\ rec' = [rec EXCEPT !.active = FALSE, !.job[j].pc = "ended"]
    /\ UNCHANGED recFrame

RecordStep(j) ==
    \/ Record10s(j)
    \/ JobSetup(j)
    \/ JobWrite(j)
    \/ JobEnd(j)
    \/ JobFinally(j)

\* ------------------------------------------- fusion_worker.py: images ---
Points(h, w) == (0 .. h - 1) \X (0 .. w - 1)
MkImage(h, w, ch, f) == [h |-> h, w |-> w, ch |-> ch, at |-> f]
SameShape(i, j) == i.h = j.h /\ i.w = j.w

\* Python's slice bounds on an axis of length n: a negative bound counts from
\* the end, and every bound is clipped to 0 .. n.
SliceBound(n, k) ==
    IF k < 0 THEN (IF n + k < 0 THEN 0 ELSE n + k)
    ELSE IF k > n THEN n ELSE k
\* `k or None` as a stop bound: 0 is falsy, so the slice runs to the end.
StopOrNone(n, k) == IF k = 0 THEN n ELSE SliceBound(n, k)
SliceLen(lo, hi) == IF hi > lo THEN hi - lo ELSE 0

\* img[:, lo:hi] and img[lo:hi, :] with bounds already clipped.
ColSlice(img, lo, hi) ==
    MkImage(img.h, SliceLen(lo, hi), img.ch,
            [p \in Points(img.h, SliceLen(lo, hi)) |-> img.at[<<p[1], p[2] + lo>>]])
RowSlice(img, lo, hi) ==
    MkImage(SliceLen(lo, hi), img.w, img.ch,
            [p \in Points(SliceLen(lo, hi), img.w) |-> img.at[<<p[1] + lo, p[2]>>]])

\* A crop that trims the same side of both cameras.
CropAndShiftSameSide(img1, img2, x, y) ==
    LET c1 == ColSlice(img1, SliceBound(img1.w, x), img1.w)
        c2 == ColSlice(img2, SliceBound(img2.w, x), img2.w)
    IN  IF y > 0
        THEN <<RowSlice(c1, SliceBound(c1.h, y), c1.h),
               RowSlice(c2, SliceBound(c2.h, y), c2.h)>>
        ELSE IF y < 0
        THEN <<RowSlice(c1, 0, StopOrNone(c1.h, y)),
               RowSlice(c2, 0, StopOrNone(c2.h, y))>>
        ELSE <<c1, c2>>
\* FusionWorker.crop_and_shift with overlap_trim_x = x, overlap_trim_y = y:
\* `img1[:, x:]`, `img2[:, :-x or None]`, then the rows by the sign of y.
crop_and_shift(img1, img2, x, y) ==
    LET img1_x == ColSlice(img1, SliceBound(img1.w, x), img1.w)
        img2_x == ColSlice(img2, 0, StopOrNone(img2.w, -x))
    IN  IF y > 0
        THEN <<RowSlice(img1_x, SliceBound(img1_x.h, y), img1_x.h),
               RowSlice(img2_x, 0, StopOrNone(img2_x.h, -y))>>
        ELSE IF y < 0
        THEN <<RowSlice(img1_x, 0, StopOrNone(img1_x.h, -Abs(y))),
               RowSlice(img2_x, SliceBound(img2_x.h, Abs(y)), img2_x.h)>>
        ELSE <<img1_x, img2_x>>

\* A call's outcome: the value returned, or the exception raised.
Ok(v) == [kind |-> "ok", ret |-> v]
Raised(e) == [kind |-> "error", err |-> e]

\* A fusion that writes into img1 itself instead of a copy of it.
FuseInPlace(img1, fused) == fused
\* `fused = img1.copy()`: img1 after the call is what it was.
FuseCopy(img1, fused) == img1
\* FusionWorker.fuse_images: `fused = img1.copy();
\* fused[mask1 > 0] = img2[mask1 > 0]`. A boolean index of another shape than
\* the array raises IndexError. The outcome carries the buffers after the call.
fuse_images(img1, img2, mask1) ==
    IF ~SameShape(img1, mask1) \/ ~SameShape(img2, mask1)
    THEN Raised("IndexError")
    ELSE LET fused == [img1 EXCEPT !.at =
                         [p \in Points(img1.h, img1.w) |->
                            IF mask1.at[p] > 0 THEN img2.at[p] ELSE img1.at[p]]]
         IN  [kind |-> "ok", ret |-> fused,
              img1 |-> FuseCopy(img1, fused), img2 |-> img2, mask1 |-> mask1]

\* `np.full(..., 128, dtype=np.uint8)`
PadFill == 128
\* The pixel of an array with ch channels whose every channel is v.
Gray(ch, v) == IF ch = 0 THEN v ELSE [i \in 1 .. ch |-> v]
\* A padding that appends the border on the right only.
PadOffsetNone(x) == 0
\* `padded[:, x:x + w] = cropped_img`: the input starts at column x.
PadOffset(x) == x
\* FusionWorker.pad_to_full_width with overlap_trim_x = x. np.full refuses a
\* negative width. The canvas has 3 channels unless the input is a 2-D array;
\* the input is stored into the slice x : x + w of the canvas, whose bounds
\* are clipped as any slice's: a slice of another width than the input (every
\* x < 0) does not take it, an input of 1 channel is broadcast over the 3 and
\* one of 2 or 4 channels does not fit.
pad_to_full_width(cropped_img, x) ==
    LET h == cropped_img.h
        w == cropped_img.w
        full_w == w + 2 * x
        out_ch == IF cropped_img.ch = 0 THEN 0 ELSE 3
        lo == SliceBound(full_w, PadOffset(x))
        hi == SliceBound(full_w, PadOffset(x) + w)
        Inside(p) == p[2] >= lo /\ p[2] < hi
        Src(p) == cropped_img.at[<<p[1], p[2] - lo>>]
    IN  IF full_w < 0 THEN Raised("ValueError")
        ELSE IF SliceLen(lo, hi) # w /\ w # 1 THEN Raised("ValueError")
        ELSE IF cropped_img.ch \notin {0, 1, 3} THEN Raised("ValueError")
        ELSE Ok(MkImage(h, full_w, out_ch,
                 [p \in Points(h, full_w) |->
                    IF Inside(p)
                    THEN (IF cropped_img.ch = 1 THEN Gray(3, Src(p)[1]) ELSE Src(p))
                    ELSE Gray(out_ch, PadFill)]))

\* SATURATION_THRESHOLD, passed to both CameraWorkers.
SaturationThreshold == 240
\* CameraWorker.compute_mask: `cv2.inRange(image, threshold, 255)`.
compute_mask(image, threshold) ==
    MkImage(image.h, image.w, 0,
            [p \in Points(image.h, image.w) |->
               IF image.at[p] >= threshold /\ image.at[p] <= 255 THEN 255 ELSE 0])

\* The border pixels of the nonzero regions of a mask, as <<row, column>>:
\* the points cv2.findContours(mask, RETR_EXTERNAL, CHAIN_APPROX_SIMPLE)
\* outlines (CameraWorker.draw_mask_outline), for masks with no holes.
Neighbours(p) ==
    {<<p[1] - 1, p[2]>>, <<p[1] + 1, p[2]>>, <<p[1], p[2] - 1>>, <<p[1], p[2] + 1>>}
ContourPoints(mask) ==
    {p \in Points(mask.h, mask.w) :
        /\ mask.at[p] > 0
        /\ \E n \in Neighbours(p) :
              n \notin Points(mask.h, mask.w) \/ mask.at[n] = 0}
\* FusionWorker.shift_contours: x is the column, y the row.
shift_contours(contours, dx, dy) == {<<p[1] + dy, p[2] + dx>> : p \in contours}

\* `contours1 = self.shift_contours(frame1['contours'], dx=-x, dy=0)`
Reproject1(contours, x, y) == shift_contours(contours, -x, 0)
\* `contours2 = self.shift_contours(frame2['contours'], dx=0, dy=+y)`
Reproject2(contours, x, y) == shift_contours(contours, 0, y)

\* cam1_overlay_color, cam2_overlay_color as shared_state.py passes them.
Cam1OverlayColor == <<255, 0, 0>>
Cam2OverlayColor == <<0, 0, 255>>
\* FusionWorker.draw_outlines_on_fused: GRAY2BGR, which cv2.cvtColor refuses
\* for an array with no pixel, then cam1's contours, then cam2's over them.
draw_outlines_on_fused(fused, contours1, contours2) ==
    IF fused.h = 0 \/ fused.w = 0 THEN Raised("cv2.error")
    ELSE Ok(MkImage(fused.h, fused.w, 3,
            [p \in Points(fused.h, fused.w) |->
               IF p \in contours2 THEN Cam2OverlayColor
               ELSE IF p \in contours1 THEN Cam1OverlayColor
               ELSE Gray(3, fused.at[p])]))

\* cv2's CLAHE on a single-channel array no larger than the tile grid in
\* either direction (the default grid is 8 x 8): padded to the grid every tile
\* is one pixel t, whose clipped histogram gives the table 255 for v >= t and 0
\* below; a pixel takes the mean of the tables of the four tiles up and left of
\* it (itself included, clamped at the border) at its own value, rounded.
Quarter(k) == IF k = 1 THEN 64 ELSE IF k = 2 THEN 128 ELSE IF k = 3 THEN 191 ELSE 255
Up(i) == IF i = 0 THEN 0 ELSE i - 1
TileTable(t, v) == IF v >= t THEN 1 ELSE 0
ClaheValue(val, p) ==
    Quarter(TileTable(val[<<Up(p[1]), Up(p[2])>>], val[p])
            + TileTable(val[<<Up(p[1]), p[2]>>], val[p])
            + TileTable(val[<<p[1], Up(p[2])>>], val[p])
            + TileTable(val[p], val[p]))

\* A test for the empty region that never finds it empty.
IsEmptyRegionNever(nz) == FALSE
\* `if len(xs) == 0 or len(ys) == 0:`
IsEmptyRegion(nz) == nz = {}
MinOf(S) == CHOOSE v \in S : \A u \in S : v <= u
MaxOf(S) == CHOOSE v \in S : \A u \in S : v >= u
\* A region buffer that is a view of the input: writing the enhanced pixels
\* into it writes them into the input.
ClaheInPlace(image, output) == output
\* `l_clahe = l.copy()` and `output = image.copy()`: the input after the call
\* is what it was.
ClaheCopy(image, output) == image
\* apply_clahe_masked_region(image, mask): the outcome carries the value
\* returned, whether it is the input buffer itself, and the input buffer
\* after the call. The image and the mask are sliced by the bounding box of
\* the mask's nonzero pixels, each clipped to its own array; a region of the
\* image smaller than the mask's does not take the boolean index. A 2-D
\* array and one of 1 channel go the grayscale way, where the enhanced pixels
\* of a 1-channel region are broadcast only if there is one of them. In the
\* BGR branch the region is converted to Lab and back: its pixels come out as
\* <<L, a, b, 0>>, the colour cv2 gives for that Lab value (for the gray
\* pixels of the model L is ordered as the gray value, a = b = 128).
apply_clahe_masked_region(image, mask) ==
    LET nz == {p \in Points(mask.h, mask.w) : mask.at[p] > 0}
    IN  IF IsEmptyRegion(nz)
        THEN [kind |-> "ok", ret |-> image, same |-> TRUE, image |-> image]
        ELSE IF nz = {} THEN Raised("ValueError")
        ELSE
        LET y_min == MinOf({p[1] : p \in nz})
            y_max == MaxOf({p[1] : p \in nz})
            x_min == MinOf({p[2] : p \in nz})
            x_max == MaxOf({p[2] : p \in nz})
            InRoi(p) == /\ p[1] >= y_min /\ p[1] <= y_max
                        /\ p[2] >= x_min /\ p[2] <= x_max
            roi_img == ColSlice(RowSlice(image, SliceBound(image.h, y_min),
                                         SliceBound(image.h, y_max + 1)),
                                SliceBound(image.w, x_min),
                                SliceBound(image.w, x_max + 1))
            roi_mask == ColSlice(RowSlice(mask, y_min, y_max + 1), x_min, x_max + 1)
            l == [p \in Points(roi_img.h, roi_img.w) |->
                    IF image.ch = 0 THEN roi_img.at[p] ELSE roi_img.at[p][1]]
            Rel(p) == <<p[1] - y_min, p[2] - x_min>>
            Masked(p) == InRoi(p) /\ mask.at[p] > 0
        IN  IF image.ch \in {0, 1}
            THEN IF ~SameShape(roi_img, roi_mask) THEN Raised("IndexError")
                 ELSE IF image.ch = 1 /\ Cardinality(nz) > 1 THEN Raised("ValueError")
                 ELSE LET output == [image EXCEPT !.at =
                          [p \in Points(image.h, image.w) |->
                             IF Masked(p)
                             THEN Gray(image.ch, ClaheValue(l, Rel(p)))
                             ELSE image.at[p]]]
                      IN  [kind |-> "ok", same |-> FALSE, ret |-> output,
                           image |-> ClaheCopy(image, output)]
            ELSE IF image.ch = 3
            THEN IF roi_img.h = 0 \/ roi_img.w = 0 THEN Raised("cv2.error")
                 ELSE IF ~SameShape(roi_img, roi_mask) THEN Raised("IndexError")
                 ELSE [kind |-> "ok", same |-> FALSE, image |-> image,
                       ret |-> [image EXCEPT !.at =
                          [p \in Points(image.h, image.w) |->
                             IF ~InRoi(p) THEN image.at[p]
                             ELSE IF mask.at[p] > 0
                             THEN <<ClaheValue(l, Rel(p)), 128, 128, 0>>
                             ELSE <<l[Rel(p)], 128, 128, 0>>]]]
            ELSE Raised("ValueError")

\* `np.ones_like(img1) - mask1` on uint8 buffers.
OnesMinus(mask) ==
    [mask EXCEPT !.at = [p \in Points(mask.h, mask.w) |-> (1 - mask.at[p]) % 256]]

\* FusionWorker.run up to the first enhancement call: cam1's cropped
\* saturation mask and the region mask `np.ones_like(img1) - mask1` handed to
\* apply_clahe_masked_region with cam1's image.
Cam1Region(image1, image2, threshold, x, y) ==
    LET masks == crop_and_shift(compute_mask(image1, threshold),
                                compute_mask(image2, threshold), x, y)
    IN  [mask1 |-> masks[1], region |-> OnesMinus(masks[1])]

\* An array whose pixel at p holds p: cropped, it tells where each pixel of
\* the frame has gone.
IndexImage(h, w) == MkImage(h, w, 0, [p \in Points(h, w) |-> p])
\* The point a contour point is drawn at.
DrawnAt(shifted) == CHOOSE d \in shifted : TRUE
\* FusionWorker.run from the crop to the re-projected contours: for each
\* camera, where its pixels are in the cropped image (moved) and where each
\* point of its contours is drawn (drawn).
Registration(image1, image2, threshold, x, y) ==
    LET moved == crop_and_shift(IndexImage(image1.h, image1.w),
                                IndexImage(image2.h, image2.w), x, y)
        c1 == ContourPoints(compute_mask(image1, threshold))
        c2 == ContourPoints(compute_mask(image2, threshold))
    IN  [moved1 |-> moved[1], moved2 |-> moved[2],
         drawn1 |-> [p \in c1 |-> DrawnAt(Reproject1({p}, x, y))],
         drawn2 |-> [p \in c2 |-> DrawnAt(Reproject2({p}, x, y))]]

\* `if self.use_clahe:` around the two enhancement calls.
Enhance(use, image, mask) ==
    IF use THEN apply_clahe_masked_region(image, mask)
    ELSE [kind |-> "ok", ret |-> image, same |-> TRUE, image |-> image]
\* FusionWorker.run, from the crop of a dequeued pair to fused_data: the two
\* buffers of the Fused Record, or the exception that ends the thread.
FusedData(image1, image2, threshold, x, y, use) ==
    LET mask1f == compute_mask(image1, threshold)
        mask2f == compute_mask(image2, threshold)
        imgs == crop_and_shift(image1, image2, x, y)
        masks == crop_and_shift(mask1f, mask2f, x, y)
        contours1 == Reproject1(ContourPoints(mask1f), x, y)
        contours2 == Reproject2(ContourPoints(mask2f), x, y)
        e1 == Enhance(use, imgs[1], OnesMinus(masks[1]))
        e2 == Enhance(use, imgs[2], masks[1])
    IN  IF e1.kind = "error" THEN e1
        ELSE IF e2.kind = "error" THEN e2
        ELSE LET f == fuse_images(e1.ret, e2.ret, masks[1])
             IN  IF f.kind = "error" THEN Raised(f.err)
                 ELSE LET o == draw_outlines_on_fused(f.ret, contours1, contours2)
                          p1 == pad_to_full_width(f.ret, x)
                      IN  IF o.kind = "error" THEN o
                          ELSE IF p1.kind = "error" THEN p1
                          ELSE LET p2 == pad_to_full_width(o.ret, x)
                               IN  IF p2.kind = "error" THEN p2
                                   ELSE Ok([fused |-> p1.ret,
                                            fused_with_outline |-> p2.ret])

\* ------------------------------------------- calls of the image functions ---
\* Gray levels of a cam1 frame (unsaturated, saturated), and the level cam2
\* shows at the same place (cam2 is the darker exposure).
Cam1Levels == {10, 255}
Cam2Level(v) == IF v = 255 THEN 50 ELSE 200
GrayImages(h, w) ==
    {MkImage(h, w, 0, f) : f \in [Points(h, w) -> Cam1Levels]}
Cam2Image(a) ==
    [a EXCEPT !.at = [p \in Points(a.h, a.w) |-> Cam2Level(a.at[p])]]
MaskImages(h, w) ==
    {MkImage(h, w, 0, f) : f \in [Points(h, w) -> {0, 255}]}
\* The same picture as an array of shape (h, w, ch); 0 is the 2-D array.
Channels == {0, 1, 2, 3, 4}
WithChannels(a, ch) ==
    [a EXCEPT !.ch = ch, !.at = [p \in Points(a.h, a.w) |-> Gray(ch, a.at[p])]]
Shapes == {sh \in (1 .. MaxH) \X (1 .. MaxW) : sh[1] * sh[2] <= MaxPixels}
TrimsX == 0 .. MaxW
\* overlap_trim_x as pad_to_full_width may find it: of either sign.
PadTrims == -MaxW .. MaxW
TrimsY == -MaxH .. MaxH

Call(op, a, b, m, x, y, use) ==
    [op |-> op, a |-> a, b |-> b, m |-> m, x |-> x, y |-> y, use |-> use,
     out |-> [kind |-> "none"]]
\* The calls made on images of shape sh.
Calls(sh) ==
      {Call("crop", a, Cam2Image(a), NoImage, x, y, FALSE) :
          a \in GrayImages(sh[1], sh[2]), x \in TrimsX, y \in TrimsY}
      \cup {Call("fuse", a, Cam2Image(a), m, 0, 0, FALSE) :
          a \in GrayImages(sh[1], sh[2]), m \in MaskImages(sh[1], sh[2])}
      \cup {Call("pad", WithChannels(a, ch), NoImage, NoImage, x, 0, FALSE) :
          a \in GrayImages(sh[1], sh[2]), ch \in Channels, x \in PadTrims}
      \cup {Call("clahe", WithChannels(a, ch), NoImage, m, 0, 0, FALSE) :
          a \in GrayImages(sh[1], sh[2]), ch \in Channels,
          m \in MaskImages(sh[1], sh[2])}
      \cup {Call("region", a, Cam2Image(a), NoImage, x, y, TRUE) :
          a \in GrayImages(sh[1], sh[2]), x \in TrimsX, y \in TrimsY}
      \cup {Call("contours", a, b, NoImage, x, y, FALSE) :
          a \in GrayImages(sh[1], sh[2]), b \in GrayImages(sh[1], sh[2]),
          x \in TrimsX, y \in TrimsY}
      \cup {Call("run", a, Cam2Image(a), NoImage, x, y, use) :
          a \in GrayImages(sh[1], sh[2]), x \in TrimsX, y \in TrimsY,
          use \in BOOLEAN}

pipeVars == <<cfg, handler, tuner, rec, now, shutdown_requested, q, running, pause_capture, cap,
              frame_counter, pc, half, qi, frame_data, frame1, frame2, feeder,
              stopPc, pubCount, dequeued, since, pauseHist, stopError>>
Pending(op) == px.op = op /\ px.out.kind = "none"

CallCropAndShift ==
    /\ Pending("crop")
    /\ px' = [px EXCEPT !.out = Ok(crop_and_shift(px.a, px.b, px.x, px.y))]
    /\ UNCHANGED pipeVars
CallFuseImages ==
    /\ Pending("fuse")
    /\ px' = [px EXCEPT !.out = fuse_images(px.a, px.b, px.m)]
    /\ UNCHANGED pipeVars
CallPadToFullWidth ==
    /\ Pending("pad")
    /\ px' = [px EXCEPT !.out = pad_to_full_width(px.a, px.x)]
    /\ UNCHANGED pipeVars
CallClahe ==
    /\ Pending("clahe")
    /\ px' = [px EXCEPT !.out = apply_clahe_masked_region(px.a, px.m)]
    /\ UNCHANGED pipeVars
CallCam1Region ==
    /\ Pending("region")
    /\ px' = [px EXCEPT !.out = Ok(Cam1Region(px.a, px.b, SaturationThreshold,
                                              px.x, px.y))]
    /\ UNCHANGED pipeVars
CallRegistration ==
    /\ Pending("contours")
    /\ px' = [px EXCEPT !.out = Ok(Registration(px.a, px.b, SaturationThreshold,
                                                px.x, px.y))]
    /\ UNCHANGED pipeVars
\* One cycle of FusionWorker.run on a dequeued pair.
RunFusion ==
    /\ Pending("run")
    /\ px' = [px EXCEPT !.out = FusedData(px.a, px.b, SaturationThreshold,
                                          px.x, px.y, px.use)]
    /\ UNCHANGED pipeVars

\* The image functions called on every input of the bounded sets.
ImageInit ==
    /\ InitPipeline({[uc689 |-> FALSE, test |-> FALSE, target |-> "none",
                      stall |-> "none"]})
    /\ \E sh \in Shapes : px \in Calls(sh)
ImageNext ==
    \/ CallCropAndShift
    \/ CallFuseImages
    \/ CallPadToFullWidth
    \/ CallClahe
    \/ CallCam1Region
    \/ CallRegistration
    \/ RunFusion
ImageSpec == ImageInit /\ [][ImageNext]_vars

\* The threads main.py starts: the workers, and the feeder.
WorkerStep == FusionStep \/ \E c \in Cams : CamStep(c)
ThreadStep == WorkerStep \/ FeederStep

\* The pipeline on its own, with the clock.
Next == ThreadStep \/ Tick
Spec == Init /\ [][Next]_vars

\* The pipeline and a thread that calls stop() on one worker, again and again.
CamStopNext ==
    \/ ThreadStep
    \/ \E c \in Cams : CamStopBegin(c) \/ CamStopRelease(c)
StopNext == CamStopNext \/ FusionStop
StopSpec == InitWith(Workers) /\ [][StopNext]_vars

\* stop() called on the CameraWorker cam2, whose thread keeps being scheduled.
FairStopSpec ==
    /\ InitWith({"cam2"}) /\ [][CamStopNext]_vars
    /\ WF_vars(CamStep("cam2"))

\* stop() called on the fusion worker, whose thread keeps being scheduled;
\* the capture workers and the feeder run or not, as they please.
FusionStopNext == ThreadStep \/ FusionStop
FairFusionStopSpec ==
    /\ InitWith({"fusion"}) /\ [][FusionStopNext]_vars
    /\ WF_vars(FusionStep)

\* One camera of the two-camera set-up stalls at some point; at any time
\* stop() is called on every worker, in shutdown_handler's order. Every worker
\* thread keeps being scheduled, and a device that has not stalled delivers a
\* frame when read again and again.
InitStall ==
    InitFrom({[uc689 |-> FALSE, test |-> FALSE, target |-> "all", stall |-> c] :
                 c \in Cams})
StallNext ==
    \/ \E c \in Cams : CamStep(c) \/ Stall(c)
    \/ FusionStep
    \/ FusionStop
    \/ \E c \in Cams : CamStopBegin(c) \/ CamStopRelease(c)
FairStallSpec ==
    /\ InitStall /\ [][StallNext]_vars
    /\ \A c \in Cams : WF_vars(CamStep(c)) /\ SF_vars(CamAcquireOk(c))
    /\ WF_vars(FusionStep)

\* The pipeline and the shutdown signal. Every thread keeps being scheduled.
ShutdownNext == ThreadStep \/ SetShutdown
FairShutdownSpec ==
    /\ Init /\ [][ShutdownNext]_vars
    /\ \A c \in Cams : WF_vars(CamStep(c))
    /\ WF_vars(FusionStep)
    /\ WF_vars(FeederStep)

\* The pipeline and an external thread that sets and clears the pause flag of
\* one capture worker.
PauseNext ==
    \/ ThreadStep
    \/ \E c \in Cams : PauseSet(c) \/ PauseClear(c)
PauseSpec == InitWith(Cams) /\ [][PauseNext]_vars

\* The flag of cam2, the one /tune_cam2_exposure sets and clears. The thread
\* of cam2 keeps being scheduled, and a device that is read again and again
\* delivers a frame again and again.
FairPauseSpec ==
    /\ InitWith({"cam2"}) /\ [][PauseNext]_vars
    /\ WF_vars(CamStep("cam2"))
    /\ SF_vars(CamAcquireOk("cam2"))

\* SIGINT at any time: shutdown_handler runs while the threads main.py has
\* started do (the workers, and flask_feeder, which drains the view queues
\* and the fusion queue until the shutdown signal is set) and while requests
\* set and clear the pause flag of cam2, in every configuration that has a
\* cam2. The handler, once called, keeps being scheduled, and so does some
\* worker thread for as long as one of them can run; the feeder and the
\* requests need not be.
InitHandler ==
    InitFrom({[uc689 |-> k[1], test |-> k[2], target |-> "handler",
               stall |-> "none"] : k \in Configs})
HandlerNext ==
    \/ ThreadStep
    \/ PauseSet("cam2") \/ PauseClear("cam2")
    \/ HandlerStep
HandlerSpec == InitHandler /\ [][HandlerNext]_vars
FairHandlerSpec ==
    /\ HandlerSpec
    /\ WF_vars(WorkerStep)
    /\ WF_vars(HandlerRun)

\* The two-camera pipeline and one /tune_cam2_exposure request.
InitTune ==
    InitFrom({[uc689 |-> FALSE, test |-> FALSE, target |-> "tuner",
               stall |-> "none"]})
TuneNext ==
    \/ ThreadStep
    \/ \E r \in Requests : TuneStep(r)
TuneSpec == InitTune /\ [][TuneNext]_vars

\* The capture worker of cam2 and two /tune_cam2_exposure requests under way
\* at once.
InitTuners ==
    InitFrom({[uc689 |-> FALSE, test |-> t, target |-> "tuners",
               stall |-> "none"] : t \in BOOLEAN})
TunersNext ==
    \/ CamStep("cam2")
    \/ \E r \in Requests : TuneStep(r)
TunersSpec == InitTuners /\ [][TunersNext]_vars

\* /record_10s requests and the recording threads they start.
InitRecord ==
    InitFrom({[uc689 |-> FALSE, test |-> FALSE, target |-> "record",
               stall |-> "none"]})
RecordNext == \E j \in Jobs : RecordStep(j)
RecordSpec == InitRecord /\ [][RecordNext]_vars

\* ================================================================ claims ===
\* Positions of the fusion worker between a complete pair and the next cycle.
FusionPublishing == {"full", "evict", "put", "count"}

\* The data queues a camera worker publishes to.
DataQueuesOf(c) == {DataQ(Halves(c)[h]) : h \in 1..Len(Halves(c))}

\* Number of records worker c has put into its data queue(s).
RECURSIVE SumPub(_)
SumPub(S) ==
    IF S = {} THEN 0
    ELSE LET n == CHOOSE x \in S : TRUE IN pubCount[n] + SumPub(S \ {n})
Published(c) == SumPub(DataQueuesOf(c))

\* C1: a producer (capture worker or fusion worker) reaches its put only
\* when the queue it publishes to has a free slot, whatever the consumers of
\* that queue did between the full() check, the eviction and the put; the
\* put therefore never blocks.
C1_PutNeverBlocks ==
    /\ \A c \in Cams : pc[c] = "put" => ~Full(q[Target(c)])
    /\ pc["fusion"] = "put" => ~Full(q["fusion"])

\* A consumer emptied the queue between the producer's full() and its
\* get_nowait(), and a producer is about to put a record after an earlier one.
C1_Witness ==
    /\ \E c \in Cams : pc[c] = "evict" /\ Empty(q[Target(c)])
    /\ pc["fusion"] = "put" /\ pubCount["fusion"] >= 1

\* C2: every handoff queue holds at most one record; when a put completes the
\* queue holds exactly the record just put; and the record a queue holds is the
\* newest one published to it.
C2_QueueInv ==
    \A n \in Queues :
        /\ Len(q[n]) <= 1
        /\ ~Empty(q[n]) => Head(q[n]).n = pubCount[n]
C2_PutAct ==
    /\ \A c \in Cams :
          (pc[c] = "put" /\ pc'[c] # "put") => q'[Target(c)] = <<frame_data[c]>>
    /\ (pc["fusion"] = "put" /\ pc'["fusion"] # "put")
          => q'["fusion"] = <<frame_data["fusion"]>>
C2_OverwriteLatest == []C2_QueueInv /\ [][C2_PutAct]_vars

\* A second record has been put into a data queue and into a view queue, and
\* the fusion queue holds a fused record.
C2_Witness ==
    /\ \E c \in Cams :
          /\ ~Empty(q[DataQ(c)]) /\ Head(q[DataQ(c)]).n = 2
          /\ ~Empty(q[ViewQ(c)]) /\ Head(q[ViewQ(c)]).n = 2
    /\ ~Empty(q["fusion"])

\* C8: at the loop boundary a capture worker's frame_counter equals the number
\* of records it has put into its data queue(s); the counter never decreases
\* and only the worker's own steps change it (no consumer step, eviction or
\* undelivered frame does).
C8_BoundaryInv ==
    \A c \in Cams : pc[c] \in {"loop", "done"} => frame_counter[c] = Published(c)
C8_CounterAct ==
    \A c \in Cams :
        /\ frame_counter'[c] >= frame_counter[c]
        /\ pc'[c] = pc[c] => frame_counter'[c] = frame_counter[c]
C8_CounterExact == []C8_BoundaryInv /\ [][C8_CounterAct]_vars

\* A worker is at the loop boundary having published two records of which
\* the first was evicted, while its view queue still holds an undelivered one.
C8_Witness ==
    \E c \in Cams :
        /\ pc[c] = "loop"
        /\ frame_counter[c] = 2
        /\ pubCount[DataQ(c)] = 2
        /\ ~Empty(q[DataQ(c)])
        /\ ~Empty(q[ViewQ(c)])

\* C9: a step that leaves the read without a frame puts the worker back at its
\* loop condition (it is not terminated), with every queue, the frame
\* counter, the publication counts and its running flag unchanged; and nothing
\* was published earlier in that cycle.
C9_FailAct ==
    \A c \in Cams :
        (pc[c] = "acquire" /\ pc'[c] # "acquire" /\ pc'[c] # "full") =>
            /\ pc'[c] = "loop"
            /\ q' = q
            /\ frame_counter' = frame_counter
            /\ pubCount' = pubCount
            /\ running' = running
C9_AcquireInv ==
    \A c \in Cams : pc[c] = "acquire" => frame_counter[c] = Published(c)
C9_ReadFailure == []C9_AcquireInv /\ [][C9_FailAct]_vars

\* A worker that already published a record is back at the read of a later
\* cycle with its handle open, where the read may fail.
C9_Witness ==
    \E c \in Cams :
        /\ pc[c] = "acquire"
        /\ cap[c] = "open"
        /\ frame_counter[c] >= 1
        /\ ~Empty(q[DataQ(c)])

\* C10: the fusion worker is publishing only with both frames dequeued in the
\* same cycle; a get that times out restarts the cycle with the fusion queue
\* and the fusion frame counter unchanged.
C10_PairInv ==
    pc["fusion"] \in FusionPublishing => frame1 # NoFrame /\ frame2 # NoFrame
C10_TimeoutAct ==
    /\ (pc["fusion"] = "get1" /\ pc'["fusion"] # "get1" /\ frame1' = NoFrame)
         => /\ pc'["fusion"] = "loop"
            /\ q'["fusion"] = q["fusion"]
            /\ frame_counter'["fusion"] = frame_counter["fusion"]
    /\ (pc["fusion"] = "get2" /\ pc'["fusion"] # "get2" /\ frame2' = NoFrame)
         => /\ pc'["fusion"] = "loop"
            /\ q'["fusion"] = q["fusion"]
            /\ frame_counter'["fusion"] = frame_counter["fusion"]
C10_NoPartialFusion == []C10_PairInv /\ [][C10_TimeoutAct]_vars

\* The fusion worker holds a cam1 frame and waits on an empty cam2 queue,
\* after it has already published a fused record.
C10_Witness ==
    /\ pc["fusion"] = "get2"
    /\ frame1 # NoFrame
    /\ Empty(q["cam2_data"])
    /\ frame_counter["fusion"] >= 1

\* C3: once the shutdown signal is set, every capture worker and the fusion
\* worker eventually leave their loops, with no stop() call at all.
C3_ShutdownStopsAll ==
    shutdown_requested ~>
        /\ \A c \in Cams : pc[c] \in {"done", "absent"}
        /\ pc["fusion"] = "done"

\* C4: after stop() has returned on a CameraWorker, the worker puts at most
\* one further record into each queue, increments its frame counter at most
\* once more, and its loop ends.
C4_AfterStopInv ==
    \A c \in Cams :
        since[c].returned =>
            /\ \A n \in Queues : since[c].puts[n] <= 1
            /\ since[c].incs <= 1
C4_StopEndsLoop ==
    /\ []C4_AfterStopInv
    /\ since[cfg.target].returned ~> pc[cfg.target] = "done"

\* stop() returned while a CameraWorker was in the middle of a cycle; the
\* worker has completed that cycle (one record per queue, one increment) and
\* has left its loop.
C4_Witness ==
    \E c \in Cams :
        /\ ~cfg.uc689
        /\ since[c].returned
        /\ since[c].incs = 1
        /\ since[c].puts[DataQ(c)] = 1
        /\ since[c].puts[ViewQ(c)] = 1
        /\ pc[c] = "done"

\* C5: once a first stop() has returned, the worker's running flag is false
\* and a non-test capture worker's handle is released, no later step (a
\* further stop() call, at any point of the worker's loop) changes either, and
\* no stop() call raises.
C5_StoppedInv ==
    /\ ~stopError
    /\ \A c \in Cams :
          since[c].returned =>
              /\ ~running[c]
              /\ cap[c] = IF TestMode(c) THEN "none" ELSE "released"
C5_StoppedAct ==
    /\ \A c \in Cams :
          since[c].returned => running'[c] = running[c] /\ cap'[c] = cap[c]
    /\ ~running["fusion"] => ~running'["fusion"]
C5_StopIdempotent == []C5_StoppedInv /\ [][C5_StoppedAct]_vars

\* A second stop() call on a capture worker has set the flag again and is
\* about to release the handle the first call released.
C5_Witness ==
    \E c \in Cams :
        /\ since[c].returned
        /\ stopPc[c] = "release"
        /\ cap[c] = "released"

\* C6 as stated: no step taken while the pause flag of a capture worker is
\* held acquires a frame, puts a record into a queue of the worker or
\* increments its frame counter.
C6_NothingWhileHeld ==
    [][\A c \in Cams :
         (pause_capture[c] /\ pause_capture'[c]) =>
             /\ ~(pc[c] = "acquire" /\ pc'[c] = "full")
             /\ pc[c] = "put" => pc'[c] = "put"
             /\ frame_counter'[c] = frame_counter[c]]_vars

\* C6 as amended: while the flag is held the worker starts no new cycle. A
\* worker that finds the flag set at its pause check goes back to the loop
\* condition with the queues and its counter unchanged, and the only cycle
\* that runs while the flag is held is the one that had passed the pause check
\* before the flag was set.
C6_PausedInv ==
    \A c \in Cams :
        (pause_capture[c] /\ pc[c] \in InCycle) => pauseHist[c] = "inflight"
C6_PollAct ==
    \A c \in Cams :
        (pause_capture[c] /\ pc[c] = "pause_check" /\ pc'[c] # "pause_check") =>
            /\ pc'[c] = "loop"
            /\ q' = q
            /\ pubCount' = pubCount
            /\ frame_counter' = frame_counter
C6_NoNewCycleWhileHeld == []C6_PausedInv /\ [][C6_PollAct]_vars

\* The flag was set while a cycle was in flight and that cycle has put its
\* record into the data queue with the flag held.
C6_Witness ==
    \E c \in Cams :
        /\ pause_capture[c]
        /\ pauseHist[c] = "inflight"
        /\ pc[c] = "count"
        /\ ~Empty(q[DataQ(c)])

\* The bound of the model has ended the worker's run.
Capped(c) == pc[c] = "loop" /\ frame_counter[c] >= MaxFrames

\* C7: a running worker whose pause flag stays clear keeps publishing: again
\* and again either the flag is (still or again) set or the worker has just put
\* a record into both of its queues (no stop and no shutdown is requested in
\* this specification).
C7_ResumesAfterClear ==
    []<>(\/ pause_capture[cfg.target]
         \/ pc[cfg.target] = "count"
         \/ Capped(cfg.target))

\* The worker found its flag set, the flag was cleared, and the worker has put
\* the record of its first cycle after that into both of its queues.
C7_Witness ==
    \E c \in Cams :
        /\ ~pause_capture[c]
        /\ pauseHist[c] = "resumed"
        /\ pc[c] = "count"
        /\ frame_counter[c] >= 1

\* C11: a dequeued pair is fused iff |ts1 - ts2| <= max_time_skew. A pair
\* beyond the tolerance sends the worker back to the loop condition with the
\* fusion queue, the number of Fused Records and the fusion frame counter
\* unchanged; a pair within it is published exactly once (the record built
\* for it is the next one put, and it is put only at the put step) and counted
\* exactly once (the counter moves only at the count step, by one).
C11_SkewAct ==
    (pc["fusion"] = "get2" /\ frame2' # NoFrame) =>
        IF Abs(frame1.ts - frame2'.ts) <= MaxTimeSkew
        THEN /\ pc'["fusion"] = "full"
             /\ frame_data'["fusion"].n = pubCount["fusion"] + 1
        ELSE /\ pc'["fusion"] = "loop"
             /\ q'["fusion"] = q["fusion"]
             /\ pubCount'["fusion"] = pubCount["fusion"]
             /\ frame_counter'["fusion"] = frame_counter["fusion"]
C11_OnceAct ==
    /\ pubCount'["fusion"] # pubCount["fusion"] =>
          /\ pc["fusion"] = "put" /\ pc'["fusion"] = "count"
          /\ pubCount'["fusion"] = pubCount["fusion"] + 1
          /\ q'["fusion"] = <<frame_data["fusion"]>>
    /\ frame_counter'["fusion"] # frame_counter["fusion"] =>
          /\ pc["fusion"] = "count" /\ pc'["fusion"] = "loop"
          /\ frame_counter'["fusion"] = frame_counter["fusion"] + 1
C11_OnceInv ==
    /\ pc["fusion"] \in {"full", "evict", "put"} =>
          /\ frame_data["fusion"].n = pubCount["fusion"] + 1
          /\ frame_counter["fusion"] = pubCount["fusion"]
          /\ Abs(frame1.ts - frame2.ts) <= MaxTimeSkew
    /\ pc["fusion"] = "count" =>
          /\ frame_data["fusion"].n = pubCount["fusion"]
          /\ frame_counter["fusion"] = pubCount["fusion"] - 1
    /\ pc["fusion"] \in {"loop", "get1", "get2", "done"} =>
          frame_counter["fusion"] = pubCount["fusion"]
C11_SkewIff == []C11_OnceInv /\ [][C11_SkewAct /\ C11_OnceAct]_vars

\* The fusion worker has published one pair taken within the tolerance and
\* has just rejected a second pair whose timestamps are a tick apart.
C11_Witness ==
    /\ pc["fusion"] = "loop"
    /\ frame1 # NoFrame /\ frame2 # NoFrame
    /\ Abs(frame1.ts - frame2.ts) > MaxTimeSkew
    /\ frame_counter["fusion"] = 1
    /\ pubCount["fusion"] = 1

\* C12: once FusionWorker.stop() has been called the fusion worker's loop
\* ends, whatever its input queues hold and whether or not anything drains
\* the fusion queue.
C12_FusionStopEndsLoop == ~running["fusion"] ~> pc["fusion"] = "done"

\* The fusion worker was stopped after two Fused Records, with both input
\* queues empty and the fusion queue full; it has left its loop.
C12_Witness ==
    /\ ~running["fusion"]
    /\ pc["fusion"] = "done"
    /\ Full(q["fusion"])
    /\ pubCount["fusion"] = 2
    /\ Empty(q["cam1_data"]) /\ Empty(q["cam2_data"])

\* Camera s has stalled with no acquired frame left to publish: it never
\* publishes again.
StalledFor(s) ==
    /\ cfg.stall = s
    /\ cap[s] = "stalled"
    /\ pc[s] \notin {"full", "evict", "put", "count"}
\* The camera that has not stalled.
Healthy == CHOOSE o \in Cams : o # cfg.stall
\* The frame of camera s the fusion worker has dequeued in this cycle.
FrameOf(s) == IF s = "cam1" THEN frame1 ELSE frame2

\* With one camera stalled: no worker at its put finds the queue full, and
\* the fusion worker can always take a step until its loop has ended.
C13_NoBlockInv ==
    /\ \A c \in Cams : pc[c] = "put" => ~Full(q[Target(c)])
    /\ pc["fusion"] = "put" => ~Full(q["fusion"])
    /\ pc["fusion"] # "done" => ENABLED FusionStep
\* The healthy camera keeps publishing and counting until it is stopped, the
\* fusion worker keeps coming back to its loop condition, and every worker
\* whose stop() was called leaves its loop (running is never set again, so a
\* worker that is again and again running or done is done once stopped).
C13_Progress ==
    /\ []<>(pc[Healthy] = "count" \/ Capped(Healthy) \/ ~running[Healthy])
    /\ []<>(pc["fusion"] \in {"loop", "done"})
    /\ \A w \in Workers : []<>(running[w] \/ pc[w] = "done")

\* C13 as stated: once a camera has stalled the fusion worker publishes no
\* Fused Record, the other capture worker keeps publishing and counting
\* without blocking, the fusion worker keeps cycling, and every worker
\* terminates on stop.
C13_NoFusedAct ==
    \A s \in Cams : StalledFor(s) => pubCount'["fusion"] = pubCount["fusion"]
C13_StallAsStated ==
    []C13_NoBlockInv /\ [][C13_NoFusedAct]_vars /\ C13_Progress

\* C13 as amended: the fusion worker publishes no Fused Record once the
\* frames the stalled camera had published are used up (its data queue is
\* empty and the fusion worker holds none of its frames); the rest as stated.
C13_NoFusedOnceDrainedAct ==
    \A s \in Cams :
        (StalledFor(s) /\ Empty(q[DataQ(s)]) /\ FrameOf(s) = NoFrame) =>
            /\ pubCount'["fusion"] = pubCount["fusion"]
            /\ frame_counter'["fusion"] = frame_counter["fusion"]
C13_StalledCamera ==
    []C13_NoBlockInv /\ [][C13_NoFusedOnceDrainedAct]_vars /\ C13_Progress

\* A camera stalled before its first frame; the other camera has published
\* its second record since, and the fusion worker, with a frame of the
\* healthy camera in hand, has timed out on the stalled one and is back at
\* its get, having published nothing.
C13_Witness ==
    \E s \in Cams :
        /\ StalledFor(s)
        /\ pubCount[DataQ(s)] = 0
        /\ pubCount[DataQ(Healthy)] = 2
        /\ frame_counter[Healthy] = 2
        /\ pc["fusion"] = "get1"
        /\ pubCount["fusion"] = 0

\* A call of op has returned a value.
HasReturned(op) == px.op = op /\ px.out.kind = "ok"

\* C14: for equally sized buffers and trims 0 <= x < width, |y| < height,
\* crop_and_shift returns cam1 without its first x columns and cam2 without
\* its last x columns; for y > 0 cam1 also loses its top y rows and cam2 its
\* bottom y rows, for y < 0 cam1 its bottom |y| rows and cam2 its top |y|
\* rows; both outputs have the same height and width, and with x = 0, y = 0
\* each output is its input.
C14_CropAndShift ==
    (/\ px.op = "crop" /\ px.out.kind # "none"
     /\ px.x >= 0 /\ px.x < px.a.w /\ Abs(px.y) < px.a.h) =>
        /\ px.out.kind = "ok"
        /\ LET o1 == px.out.ret[1]
               o2 == px.out.ret[2]
               top1 == IF px.y > 0 THEN px.y ELSE 0
               top2 == IF px.y < 0 THEN -px.y ELSE 0
           IN  /\ o1.w = px.a.w - px.x /\ o2.w = o1.w
               /\ o1.h = px.a.h - Abs(px.y) /\ o2.h = o1.h
               /\ \A p \in Points(o1.h, o1.w) :
                     /\ o1.at[p] = px.a.at[<<p[1] + top1, p[2] + px.x>>]
                     /\ o2.at[p] = px.b.at[<<p[1] + top2, p[2]>>]
               /\ (px.x = 0 /\ px.y = 0) => o1 = px.a /\ o2 = px.b

\* crop_and_shift has returned for a 2 x 2 pair whose pixels differ, with one
\* column and one row trimmed (y < 0).
C14_Witness ==
    /\ HasReturned("crop")
    /\ px.x = 1 /\ px.y = -1
    /\ px.a.h = 2 /\ px.a.w = 2
    /\ px.a.at[<<0, 0>>] # px.a.at[<<0, 1>>]
    /\ px.a.at[<<0, 1>>] # px.a.at[<<1, 1>>]
    /\ px.out.ret[1].h = 1 /\ px.out.ret[1].w = 1

\* C15: for equally sized images and mask, fuse_images returns a buffer that
\* holds cam1's pixel wherever the mask is 0 and cam2's pixel at the same
\* place wherever it is set, and both inputs are after the call what they
\* were before it.
C15_FuseImages ==
    (px.op = "fuse" /\ px.out.kind # "none") =>
        /\ px.out.kind = "ok"
        /\ SameShape(px.out.ret, px.a)
        /\ \A p \in Points(px.a.h, px.a.w) :
              px.out.ret.at[p] = IF px.m.at[p] = 0 THEN px.a.at[p] ELSE px.b.at[p]
        /\ px.out.img1 = px.a
        /\ px.out.img2 = px.b

\* fuse_images has returned for a 2 x 2 pair with a mask set at some pixels
\* and clear at others.
C15_Witness ==
    /\ HasReturned("fuse")
    /\ px.a.h = 2 /\ px.a.w = 2
    /\ px.m.at[<<0, 0>>] = 255 /\ px.m.at[<<1, 1>>] = 0
    /\ px.out.ret.at[<<0, 0>>] = px.b.at[<<0, 0>>]
    /\ px.out.ret # px.a

\* C16: for a single-channel or 3-channel image of width w and trim_x >= 0,
\* pad_to_full_width returns an image of the same height and channels and of
\* width w + 2 * trim_x whose columns trim_x .. trim_x + w - 1 are the input
\* and whose other columns are 128 in every channel.
C16_PadToFullWidth ==
    (px.op = "pad" /\ px.out.kind # "none" /\ px.a.ch \in {0, 3} /\ px.x >= 0) =>
        /\ px.out.kind = "ok"
        /\ LET o == px.out.ret
           IN  /\ o.h = px.a.h
               /\ o.w = px.a.w + 2 * px.x
               /\ o.ch = px.a.ch
               /\ \A p \in Points(o.h, o.w) :
                     IF p[2] >= px.x /\ p[2] < px.x + px.a.w
                     THEN o.at[p] = px.a.at[<<p[1], p[2] - px.x>>]
                     ELSE o.at[p] = Gray(px.a.ch, 128)

\* pad_to_full_width has returned for a 3-channel 2 x 2 image with a border
\* of one column on each side.
C16_Witness ==
    /\ HasReturned("pad")
    /\ px.a.ch = 3 /\ px.a.h = 2 /\ px.a.w = 2 /\ px.x = 1
    /\ px.out.ret.w = 4
    /\ px.a.at[<<0, 0>>] # px.a.at[<<0, 1>>]

\* C17: for every horizontal trim x, the published 'fused' and
\* 'fused_with_outline' buffers are as wide as the camera frames they were
\* made from.
C17_CanvasWidth ==
    (HasReturned("run") /\ px.x >= 0 /\ px.x < px.a.w) =>
        /\ px.out.ret.fused.w = px.a.w
        /\ px.out.ret.fused_with_outline.w = px.a.w

\* C18: through the fusion worker as constructed (use_clahe = True), with
\* every cam1 pixel saturated (255), every cam2 pixel 50 and both trims 0,
\* the published 'fused' buffer has the input's height and width and every
\* pixel of it is 50.
C18_FullReplacement ==
    (/\ HasReturned("run") /\ px.use /\ px.x = 0 /\ px.y = 0
     /\ \A p \in Points(px.a.h, px.a.w) : px.a.at[p] = 255 /\ px.b.at[p] = 50) =>
        /\ px.out.ret.fused.h = px.a.h
        /\ px.out.ret.fused.w = px.a.w
        /\ \A p \in Points(px.a.h, px.a.w) : px.out.ret.fused.at[p] = 50

\* C19: with an all-zero mask apply_clahe_masked_region returns its input
\* buffer, unchanged, whatever the image.
C19_EmptyMaskNoOp ==
    (/\ px.op = "clahe" /\ px.out.kind # "none"
     /\ \A p \in Points(px.m.h, px.m.w) : px.m.at[p] = 0) =>
        /\ px.out.kind = "ok"
        /\ px.out.ret = px.a
        /\ px.out.same

\* apply_clahe_masked_region has returned for a 2 x 2 single-channel image
\* whose pixels differ and an all-zero mask.
C19_Witness ==
    /\ HasReturned("clahe")
    /\ px.a.ch = 0 /\ px.a.h = 2 /\ px.a.w = 2
    /\ px.a.at[<<0, 0>>] # px.a.at[<<1, 1>>]
    /\ \A p \in Points(px.m.h, px.m.w) : px.m.at[p] = 0
    /\ px.out.same

\* C20: every call of apply_clahe_masked_region with a buffer that is
\* neither single-channel nor 3-channel ends in an error, for every mask, the
\* all-zero mask included.
C20_UnsupportedShapeRaises ==
    (px.op = "clahe" /\ px.out.kind # "none" /\ px.a.ch \notin {0, 1, 3}) =>
        px.out.kind = "error"

\* The camera whose records queue n is for.
CamOf(n) == IF n \in {"cam1_data", "cam1_view"} THEN "cam1" ELSE "cam2"
CamQueues == {"cam1_data", "cam1_view", "cam2_data", "cam2_view"}
\* Positions of a capture worker between two physical frames.
BetweenFrames == {"loop", "pause_check", "acquire", "done"}

\* C21: in the split-source variant every physical frame read yields two
\* records, the left half put only into cam1's data and view queues and the
\* right half only into cam2's: between two physical frames each of the four
\* queues has received one record per frame, the frame counter is twice the
\* number of frames, and a record is only ever put into, or held by, a queue of
\* its own half.
C21_SplitFrame ==
    cfg.uc689 =>
        /\ \A n \in CamQueues : \A i \in 1 .. Len(q[n]) : q[n][i].cam = CamOf(n)
        /\ pc["cam1"] \in {"full", "evict", "put"} =>
              frame_data["cam1"].cam = CamOf(Target("cam1"))
        /\ pc["cam1"] \in BetweenFrames =>
              /\ \A n \in CamQueues : pubCount[n] = pubCount["cam1_data"]
              /\ frame_counter["cam1"] = 2 * pubCount["cam1_data"]

\* The split worker has published one physical frame and is back at its loop:
\* two increments, the left half in cam1's data queue and the right half in
\* cam2's view queue.
C21_Witness ==
    /\ cfg.uc689
    /\ pc["cam1"] = "loop"
    /\ frame_counter["cam1"] = 2
    /\ pubCount["cam2_view"] = 1
    /\ ~Empty(q["cam1_data"]) /\ Head(q["cam1_data"]).cam = "cam1"
    /\ ~Empty(q["cam2_view"]) /\ Head(q["cam2_view"]).cam = "cam2"

\* C22: the view and the data paths are independent: no step of the fusion
\* worker changes a camera's view queue, and no step of the Flask feeder or of
\* the auto-exposure tuner changes a camera's data queue.
C22_ViewDataIndependent ==
    [][/\ FusionStep =>
            /\ q'["cam1_view"] = q["cam1_view"]
            /\ q'["cam2_view"] = q["cam2_view"]
       /\ (FeederStep \/ \E r \in Requests : TuneStep(r)) =>
            /\ q'["cam1_data"] = q["cam1_data"]
            /\ q'["cam2_data"] = q["cam2_data"]]_vars

\* The feeder has taken the only record of cam1's view queue, the tuner has
\* measured a frame of cam2's view queue, and the fusion worker holds the pair
\* it dequeued from the two data queues.
C22_Witness ==
    /\ pc["cam1"] = "loop" /\ pubCount["cam1_view"] = 1
    /\ dequeued["cam1_view"] = <<1>>
    /\ tuner[1].measured # <<>>
    /\ pc["fusion"] = "full"
    /\ frame1.cam = "cam1" /\ frame2.cam = "cam2"

\* A tune request whose auto_exposure_tune has returned (no exception).
TuneReturned(r) == tuner[r].pc \in {"clear", "done"} /\ ~tuner[r].raised
\* The exposures of the sweep whose measured saturation was at or below the
\* target.
MetTarget(r) ==
    {tuner[r].measured[k][1] : k \in
        {k \in 1 .. Len(tuner[r].measured) : tuner[r].measured[k][2] <= TargetPct}}

\* C23: when auto_exposure_tune returns, the exposure it applied last is the
\* lowest of the exposures of the list whose measured saturation was at or
\* below the target, and when none was, it applied no final exposure.
C23_AutoExposure ==
    \A r \in Requests :
        TuneReturned(r) =>
            IF MetTarget(r) = {} THEN tuner[r].final = <<>>
            ELSE tuner[r].final = <<MinOf(MetTarget(r))>>

\* The _record_current_view threads that have been started and have not ended.
RunningJobs == {j \in Jobs : rec.job[j].pc \in {"started", "recording", "finally"}}

\* C24: display-recording jobs never overlap: at most one
\* _record_current_view thread is running at any time, and
\* record_state['active'] is false whenever no thread is between setting it
\* and its own `finally`, whether the thread ended with an error or not.
C24_NoOverlap ==
    /\ Cardinality(RunningJobs) <= 1
    /\ (\A j \in Jobs : rec.job[j].pc \notin {"recording", "finally"}) => ~rec.active

\* The nonzero pixels of the mask of the call, and the pixels of their
\* bounding box.
MaskNonzero == {p \in Points(px.m.h, px.m.w) : px.m.at[p] > 0}
InBoundingBox(p) ==
    /\ \E n \in MaskNonzero : n[1] <= p[1]
    /\ \E n \in MaskNonzero : n[1] >= p[1]
    /\ \E n \in MaskNonzero : n[2] <= p[2]
    /\ \E n \in MaskNonzero : n[2] >= p[2]

\* The call of apply_clahe_masked_region has returned a new buffer that
\* equals the input at every pixel outside the bounding box of the nonzero
\* mask pixels and at every pixel where the mask is 0, and the input buffer
\* is after the call what it was before.
ClaheKept ==
    /\ px.out.kind = "ok"
    /\ ~px.out.same
    /\ SameShape(px.out.ret, px.a)
    /\ \A p \in Points(px.a.h, px.a.w) :
          (~InBoundingBox(p) \/ px.m.at[p] = 0) => px.out.ret.at[p] = px.a.at[p]
    /\ px.out.image = px.a
\* A call of apply_clahe_masked_region on a single-channel image, an array of
\* shape (h, w) or (h, w, 1), and a mask with a nonzero pixel, has ended.
ClaheSingleChannel ==
    /\ px.op = "clahe" /\ px.out.kind # "none"
    /\ px.a.ch \in {0, 1} /\ MaskNonzero # {}

C26_ComplementMask ==
    HasReturned("region") =>
        \A p \in Points(px.out.ret.mask1.h, px.out.ret.mask1.w) :
            (px.out.ret.region.at[p] # 0) <=> (px.out.ret.mask1.at[p] = 0)

\* C27: the records removed from a handoff queue, by its consumers' get() and
\* by its producer's get_nowait(), come out in strictly increasing production
\* order: none is removed twice and none after a newer one.
C27_DequeueOrder ==
    \A n \in Queues :
        \A i, j \in 1 .. Len(dequeued[n]) :
            i < j => dequeued[n][i] < dequeued[n][j]

\* Two records have been removed from cam1's data queue and from the fusion
\* queue, the tuner has taken one from cam2's view queue, and the feeder the
\* second record of the fusion queue.
C27_Witness ==
    /\ dequeued["cam1_data"] = <<1, 2>>
    /\ dequeued["fusion"] = <<1, 2>>
    /\ dequeued["cam2_view"] # <<>>
    /\ tuner[1].measured # <<>>
    /\ pc["fusion"] = "loop" /\ Empty(q["fusion"])

\* C28: a capture worker with a device never performs `self.cap.grab();
\* self.cap.read()` on a handle that stop(), called from another thread, has
\* released.
C28_NoReadAfterRelease ==
    [][\A c \in Cams :
          (CamAcquireOk(c) \/ CamAcquireFail(c)) => cap[c] # "released"]_vars

\* Every contour point of drawn whose pixel is still in the cropped image
\* moved is drawn where that pixel is.
Registered(moved, drawn) ==
    \A p \in DOMAIN drawn :
        \A d \in Points(moved.h, moved.w) : moved.at[d] = p => drawn[p] = d

\* C29: for every trim (x >= 0, y of either sign) and every contour point of
\* cam1 or cam2 that survives the crop, the fusion worker draws the point at
\* the position crop_and_shift moves that camera's pixel to.
C29_ContoursRegistered ==
    HasReturned("contours") =>
        /\ Registered(px.out.ret.moved1, px.out.ret.drawn1)
        /\ Registered(px.out.ret.moved2, px.out.ret.drawn2)

\* Request r is inside auto_exposure_tune.
Tuning(r) == tuner[r].pc \in {"set_param", "get", "final"}

\* C30: with any number of /tune_cam2_exposure requests under way, cam2's
\* pause_capture flag is set as long as one of them is inside
\* auto_exposure_tune, and it is clear once every request has left its
\* `finally`, whether its tune raised or not.
C30_PausedWhileTuning ==
    /\ (\E r \in Requests : Tuning(r)) => pause_capture["cam2"]
    /\ (\A r \in Requests : tuner[r].pc \in {"idle", "done"}) => ~pause_capture["cam2"]
====
